---------------------------- MODULE Spec2Model ----------------------------
(***************************************************************************)
(* Model of the image upload service (src/unnamed/part_000, the guarded    *)
(* server) together with the two older upload variants (src/index.js and   *)
(* src/unnamed/part_001).                                                   *)
(*                                                                         *)
(* Time is in milliseconds, as Date.now() returns it.  HTTP outcomes are   *)
(* the status codes the handlers send; 200 stands for "next() was called"  *)
(* when a middleware is looked at on its own.                              *)
(***************************************************************************)
EXTENDS Integers, Sequences, FiniteSets, TLC

(***************************************************************************)
(* CONFIG (part_000 lines 16-23)                                           *)
(***************************************************************************)
SERVER_PASSWORD == "ImageConnection_FOX"
PASSWORD_MAX_FAILURES == 5
PASSWORD_LOCK_DURATION_MS == 60 * 60 * 1000
UPLOAD_RATE_LIMIT == [windowMs |-> 60 * 1000, max |-> 10]
GET_RATE_LIMIT == [windowMs |-> 60 * 1000, max |-> 60]

(***************************************************************************)
(* Bounds of the model                                                     *)
(***************************************************************************)
\* number of clock advances explored in one behaviour
MaxTicks == 3

\* the client addresses (req.ip) that send requests
Clients == {"ip1", "ip2"}

\* values a credential source (header, body field, query parameter) may hold;
\* "" is an absent or empty source
Creds == {"", SERVER_PASSWORD, "wrong"}

\* blockedUntil of an entry that never reached the threshold (undefined in JS)
Undefined == -1

VARIABLES
    failedAttempts,   \* Map ip -> {count, blockedUntil}
    now,              \* the wall clock, Date.now()
    ticks,            \* clock advances taken so far
    last,             \* the request handled last and the response it got
    mismatches,       \* history: per client, the verifications that compared the
                      \* credential and found a mismatch since the client's
                      \* last accepted one
    buffer,           \* the byte buffer handed to the pixel codec
    lib,              \* what the format library makes of that buffer
    decoded,          \* the outcome of decoding it
    uploadHits,       \* store of uploadLimiter: ip -> {totalHits, resetTime}
    getHits,          \* store of getLimiter: ip -> {totalHits, resetTime}
    windows,          \* history: per limiter and client, the end of the window
                      \* its admits are counted in and the admits allowed in it
    storage,          \* the JSON files of STORAGE_DIR: file name -> document
    handled,          \* requests the server has handled in this behaviour
    given,            \* the string handed to sanitizeFileName
    sanitized,        \* what sanitizeFileName returned for it, and then for
                      \* each of its own results in turn
    inflight          \* the requests whose handlers are suspended, in the
                      \* order they arrived

guardVars == <<failedAttempts, mismatches>>
clockVars == <<now, ticks>>
codecVars == <<buffer, lib, decoded>>
rateVars == <<uploadHits, getHits, windows>>

storeVars == <<storage, handled>>
nameVars == <<given, sanitized>>

vars == <<failedAttempts, now, ticks, last, mismatches, buffer, lib, decoded,
          uploadHits, getHits, windows, storage, handled,
          given, sanitized, inflight>>

\* the parts of the state as they are when the process has just started
GuardAtStart == failedAttempts = <<>> /\ mismatches = [ip \in Clients |-> 0]
ClockAtStart == now = 0 /\ ticks = 0
RateAtStart ==
    /\ uploadHits = <<>>
    /\ getHits = <<>>
    /\ windows = [l \in {"upload", "get"} |-> [ip \in Clients |-> [end |-> 0, allowed |-> 0]]]

StoreAtStart == storage = <<>> /\ handled = 0
SanitizeIdle == given = <<>> /\ sanitized = <<>>
NoneInFlight == inflight = <<>>

(***************************************************************************)
(* requirePasswordForRequest (part_000 lines 49-75)                        *)
(***************************************************************************)

\* line 59: the first truthy source wins; '' when none is
Provided(req) ==
    IF req.xApiKey # "" THEN req.xApiKey
    ELSE IF req.bodyPassword # "" THEN req.bodyPassword
    ELSE IF req.queryPassword # "" THEN req.queryPassword
    ELSE IF req.authorization # "" THEN req.authorization
    ELSE ""

\* the credential sources of a request: any one source alone, and any two
\* sources next to each other in the precedence of line 59
CredSources ==
    {c \in [xApiKey : Creds, bodyPassword : Creds,
            queryPassword : Creds, authorization : Creds] :
        LET set == <<c.xApiKey # "", c.bodyPassword # "",
                     c.queryPassword # "", c.authorization # "">>
            n == Cardinality({i \in 1..4 : set[i]})
        IN  \/ n <= 1
            \/ n = 2 /\ \E i \in 1..3 : set[i] /\ set[i + 1]}

Requests ==
    {[ip |-> ip, xApiKey |-> c.xApiKey, bodyPassword |-> c.bodyPassword,
      queryPassword |-> c.queryPassword, authorization |-> c.authorization] :
        ip \in Clients, c \in CredSources}

\* failedAttempts.get(ip): the entry, or NoEntry for undefined
NoEntry == [count |-> 0, blockedUntil |-> Undefined]

GetEntry(fa, ip) == IF ip \in DOMAIN fa THEN fa[ip] ELSE NoEntry

\* line 54 with the operands swapped: blocks only once the window is over
IsBlockedInverted(fa, ip, t) ==
    /\ ip \in DOMAIN fa
    /\ fa[ip].blockedUntil # Undefined
    /\ t >= fa[ip].blockedUntil

\* line 54 with <= for <: still blocked at the instant the window ends
IsBlockedInclusive(fa, ip, t) ==
    /\ ip \in DOMAIN fa
    /\ fa[ip].blockedUntil # Undefined
    /\ t <= fa[ip].blockedUntil

\* line 54: entry && entry.blockedUntil && Date.now() < entry.blockedUntil
IsBlocked(fa, ip, t) ==
    /\ ip \in DOMAIN fa
    /\ fa[ip].blockedUntil # Undefined
    /\ t < fa[ip].blockedUntil

\* line 61: !provided || provided !== SERVER_PASSWORD
Mismatch(provided) == provided = "" \/ provided # SERVER_PASSWORD

\* lines 63-68 with > for >=
RecordFailureLate(fa, ip, t) ==
    LET info == GetEntry(fa, ip)
        count == info.count + 1
        until == IF count > PASSWORD_MAX_FAILURES
                 THEN t + PASSWORD_LOCK_DURATION_MS
                 ELSE info.blockedUntil
    IN  [x \in DOMAIN fa \cup {ip} |->
            IF x = ip THEN [count |-> count, blockedUntil |-> until] ELSE fa[x]]

\* lines 63-68 starting from a fresh entry once the lock has run out
RecordFailureFresh(fa, ip, t) ==
    LET old == GetEntry(fa, ip)
        info == IF old.blockedUntil # Undefined /\ t >= old.blockedUntil
                THEN NoEntry ELSE old
        count == info.count + 1
        until == IF count >= PASSWORD_MAX_FAILURES
                 THEN t + PASSWORD_LOCK_DURATION_MS
                 ELSE info.blockedUntil
    IN  [x \in DOMAIN fa \cup {ip} |->
            IF x = ip THEN [count |-> count, blockedUntil |-> until] ELSE fa[x]]

\* lines 63-68: count the failure and possibly set the block
RecordFailure(fa, ip, t) ==
    LET info == GetEntry(fa, ip)
        count == info.count + 1
        until == IF count >= PASSWORD_MAX_FAILURES
                 THEN t + PASSWORD_LOCK_DURATION_MS
                 ELSE info.blockedUntil
    IN  [x \in DOMAIN fa \cup {ip} |->
            IF x = ip THEN [count |-> count, blockedUntil |-> until] ELSE fa[x]]

\* line 73 setting the count to 0 where the code deletes the entry
ResetAttemptsToZero(fa, ip) ==
    [x \in DOMAIN fa \cup {ip} |->
        IF x = ip THEN [count |-> 0, blockedUntil |-> Undefined] ELSE fa[x]]

\* line 73 forgotten: the entry survives a success
ResetAttemptsKeep(fa, ip) == fa

\* line 73: if (failedAttempts.has(ip)) failedAttempts.delete(ip)
ResetAttempts(fa, ip) == [x \in DOMAIN fa \ {ip} |-> fa[x]]

\* lines 54-56 counting the blocked attempt as a failure
BlockedMapCounting(fa, ip, t) == RecordFailure(fa, ip, t)

\* lines 54-56: the blocked request changes nothing
BlockedMap(fa, ip, t) == fa

\* the guard keeping one entry for all clients
requirePasswordOneEntry(fa, req, t) ==
    IF IsBlocked(fa, "ip1", t)
    THEN [status |-> 429, fa |-> BlockedMap(fa, "ip1", t)]
    ELSE IF Mismatch(Provided(req))
    THEN [status |-> 403, fa |-> RecordFailure(fa, "ip1", t)]
    ELSE [status |-> 200, fa |-> ResetAttempts(fa, "ip1")]

\* the whole function: the status it sends (200: next() called) and the map
\* it leaves
requirePasswordForRequest(fa, req, t) ==
    IF IsBlocked(fa, req.ip, t)
    THEN [status |-> 429, fa |-> BlockedMap(fa, req.ip, t)]
    ELSE IF Mismatch(Provided(req))
    THEN [status |-> 403, fa |-> RecordFailure(fa, req.ip, t)]
    ELSE [status |-> 200, fa |-> ResetAttempts(fa, req.ip)]

(***************************************************************************)
(* The rate limiters (part_000 lines 35-37).  rateLimit is the             *)
(* express-rate-limit middleware, whose code is not part of the repository;*)
(* it is modelled as section 4.4 of the specification describes it: a      *)
(* counter per client for the current window of windowMs, reset when the   *)
(* window has elapsed, requests beyond max answered 429.                   *)
(***************************************************************************)

\* requests a client goes on sending in a window once it is throttled
MaxThrottled == 2

\* line 36 built from the other configuration
uploadLimiterOfGet == [windowMs |-> GET_RATE_LIMIT.windowMs, max |-> GET_RATE_LIMIT.max]

\* line 36
uploadLimiter == [windowMs |-> UPLOAD_RATE_LIMIT.windowMs, max |-> UPLOAD_RATE_LIMIT.max]

\* line 37
getLimiter == [windowMs |-> GET_RATE_LIMIT.windowMs, max |-> GET_RATE_LIMIT.max]

\* the client's counter in its current window; a fresh one when it has none
\* or its window has elapsed
LiveHits(hits, cfg, ip, t) ==
    IF ip \in DOMAIN hits /\ t < hits[ip].resetTime
    THEN hits[ip]
    ELSE [totalHits |-> 0, resetTime |-> t + cfg.windowMs]

\* the middleware: count the request, and let it pass (admit) unless the
\* count is above max
rateLimit(hits, cfg, ip, t) ==
    LET live == LiveHits(hits, cfg, ip, t)
        counted == [live EXCEPT !.totalHits = @ + 1]
    IN  [admit |-> counted.totalHits <= cfg.max,
         hits |-> [x \in DOMAIN hits \cup {ip} |-> IF x = ip THEN counted ELSE hits[x]]]

\* the client has not yet sent all the requests it sends in this window
MaySend(hits, cfg, ip, t) ==
    LiveHits(hits, cfg, ip, t).totalHits < cfg.max + MaxThrottled

\* history: the window of 60000 ms the admit at time t falls in, and the
\* admits allowed in it, this one included when it is allowed
WindowBefore(l, ip, t) ==
    IF t < windows[l][ip].end THEN windows[l][ip]
    ELSE [end |-> t + 60000, allowed |-> 0]

Counted(l, ip, t, admit) ==
    [windows EXCEPT ![l][ip] =
        [WindowBefore(l, ip, t) EXCEPT !.allowed = IF admit THEN @ + 1 ELSE @]]

(***************************************************************************)
(* sanitizeFileName (part_000 lines 40-47).  A string is a sequence of     *)
(* one-character strings.                                                  *)
(***************************************************************************)
\* path.basename on a POSIX host: drop the trailing slashes, keep what
\* follows the last remaining slash
RECURSIVE StripTrailingSlashes(_)
StripTrailingSlashes(name) ==
    IF name # <<>> /\ name[Len(name)] = "/"
    THEN StripTrailingSlashes(SubSeq(name, 1, Len(name) - 1))
    ELSE name

RECURSIVE LastSegment(_)
LastSegment(name) ==
    IF \E i \in 1..Len(name) : name[i] = "/"
    THEN LastSegment(Tail(name))
    ELSE name

\* path.basename keeping the directory part
BasenameWhole(name) == name

Basename(name) == LastSegment(StripTrailingSlashes(name))

\* the characters \s matches
Whitespace == {" ", "\t", "\n", "\r"}

\* line 43: base.replace(/\s+/g, '_')
RECURSIVE ReplaceWhitespace(_)
ReplaceWhitespace(name) ==
    IF name = <<>> THEN <<>>
    ELSE IF Head(name) \in Whitespace
    THEN IF Len(name) > 1 /\ name[2] \in Whitespace
         THEN ReplaceWhitespace(Tail(name))
         ELSE <<"_">> \o ReplaceWhitespace(Tail(name))
    ELSE <<Head(name)>> \o ReplaceWhitespace(Tail(name))

\* the class [a-zA-Z0-9_\-\.]
SafeChars ==
    {"a", "b", "c", "d", "e", "f", "g", "h", "i", "j", "k", "l", "m",
     "n", "o", "p", "q", "r", "s", "t", "u", "v", "w", "x", "y", "z",
     "A", "B", "C", "D", "E", "F", "G", "H", "I", "J", "K", "L", "M",
     "N", "O", "P", "Q", "R", "S", "T", "U", "V", "W", "X", "Y", "Z",
     "0", "1", "2", "3", "4", "5", "6", "7", "8", "9", "_", "-", "."}

\* the replacement without the g flag: only the first match is removed
RemoveFirstUnsafe(name) ==
    IF \A i \in 1..Len(name) : name[i] \in SafeChars THEN name
    ELSE LET k == CHOOSE i \in 1..Len(name) :
                      /\ name[i] \notin SafeChars
                      /\ \A j \in 1..(i - 1) : name[j] \in SafeChars
         IN  SubSeq(name, 1, k - 1) \o SubSeq(name, k + 1, Len(name))

\* line 44: base.replace(/[^a-zA-Z0-9_\-\.]/g, '')
RemoveUnsafe(name) == SelectSeq(name, LAMBDA c : c \in SafeChars)

sanitizeFileName(name) ==
    LET base == RemoveUnsafe(ReplaceWhitespace(Basename(name)))
    IN  IF base = <<>> THEN <<"f", "i", "l", "e">> ELSE base

\* longest string handed to sanitizeFileName
MaxNameLen == 3

\* a letter, a digit, the three other characters the class keeps, two
\* whitespace characters, the separator, and two characters the class drops
NameChars == {"a", "7", "_", "-", ".", " ", "\t", "/", "$", "\\"}

Names == UNION {[1..n -> NameChars] : n \in 0..MaxNameLen}

\* sanitizeFileName called on a string, then on what it returned
Sanitize ==
    /\ Len(sanitized) < 2
    /\ sanitized' =
          Append(sanitized,
                 sanitizeFileName(IF sanitized = <<>> THEN given
                                  ELSE sanitized[Len(sanitized)]))
    /\ UNCHANGED <<given, guardVars, clockVars, codecVars, rateVars, storeVars, last,
                   inflight>>

(***************************************************************************)
(* imageBufferToPixelJSON (part_000 lines 77-118) and the inline copy of   *)
(* its format detection in index.js (lines 25-90).  A buffer is a sequence *)
(* of bytes 0..255.                                                        *)
(***************************************************************************)

\* largest number of pixels of a decoded image
MaxPixels == 4

\* buffer.toString('hex', start, end): two hex digits (0..15) for each of the
\* bytes start .. end-1 that the buffer has
RECURSIVE ToHex(_, _, _)
ToHex(buf, start, end) ==
    IF start >= end \/ start >= Len(buf) THEN <<>>
    ELSE <<buf[start + 1] \div 16, buf[start + 1] % 16>> \o ToHex(buf, start + 1, end)

\* String.prototype.startsWith
StartsWith(str, prefix) ==
    Len(str) >= Len(prefix) /\ SubSeq(str, 1, Len(prefix)) = prefix

\* '89504e470d0a1a0a'
PngMagicHex == <<8, 9, 5, 0, 4, 14, 4, 7, 0, 13, 0, 10, 1, 10, 0, 10>>

\* 'ffd8ff'
JpegMagicHex == <<15, 15, 13, 8, 15, 15>>

\* 'ffd8'
JpegMagicHexShort == <<15, 15, 13, 8>>

\* lines 79-80: header8 === '89504e470d0a1a0a'
IsPNG(buf) == ToHex(buf, 0, 8) = PngMagicHex

\* lines 81-82: header4.startsWith('ffd8ff')
IsJPEG(buf) == StartsWith(ToHex(buf, 0, 4), JpegMagicHex)

\* index.js line 36: buffer.toString('hex', 0, 2) === 'ffd8'
IndexIsJPEG(buf) == ToHex(buf, 0, 2) = JpegMagicHexShort

\* data[i] of a typed array or Buffer, 0-based; undefined past its end
At(data, i) == IF i < Len(data) THEN data[i + 1] ELSE Undefined

\* lines 95-100: the object pushed for offset i of png.data
PngPixelAt(data, i) ==
    [r |-> At(data, i), g |-> At(data, i + 1), b |-> At(data, i + 2), a |-> At(data, i + 3)]

\* lines 94-101: for (let i = 0; i < png.data.length; i += 4) pixels.push(..)
RECURSIVE PngPixelLoop(_, _)
PngPixelLoop(data, i) ==
    IF i < Len(data) THEN <<PngPixelAt(data, i)>> \o PngPixelLoop(data, i + 4) ELSE <<>>

\* lines 109-114 reading blue and red swapped
JpegPixelAtSwapped(data, i) ==
    [r |-> At(data, i + 2), g |-> At(data, i + 1), b |-> At(data, i), a |-> At(data, i + 3)]

\* lines 109-114: the object pushed for offset i of raw.data
JpegPixelAt(data, i) ==
    [r |-> At(data, i), g |-> At(data, i + 1), b |-> At(data, i + 2), a |-> At(data, i + 3)]

\* lines 108-115: for (let i = 0; i < raw.data.length; i += 4) pixels.push(..)
RECURSIVE JpegPixelLoop(_, _)
JpegPixelLoop(data, i) ==
    IF i < Len(data) THEN <<JpegPixelAt(data, i)>> \o JpegPixelLoop(data, i + 4) ELSE <<>>

\* PNG.sync.read(buffer) (line 90) and jpeg.decode(buffer, {useTArray: true})
\* (line 104) either throw or return {width, height, data}, data being the
\* RGBA bytes of the width*height pixels, row by row.
LibThrows == [ok |-> FALSE, width |-> 0, height |-> 0, data |-> <<>>]

\* RGBA values the decoded pixels take
Palette == {<<255, 0, 0, 255>>, <<1, 2, 3, 4>>, <<0, 0, 0, 0>>}

RECURSIVE Flatten(_)
Flatten(pixels) ==
    IF pixels = <<>> THEN <<>> ELSE Head(pixels) \o Flatten(Tail(pixels))

LibImages ==
    {[ok |-> TRUE, width |-> w, height |-> h, data |-> Flatten(px)] :
        w \in 1..MaxPixels, h \in 1..MaxPixels,
        px \in UNION {[1..n -> Palette] : n \in 1..MaxPixels}}

LibOutcomes ==
    {LibThrows} \cup {o \in LibImages : Len(o.data) = 4 * o.width * o.height}

NoRequest ==
    [op |-> "none", ip |-> "none", provided |-> "", status |-> 0,
     faBefore |-> <<>>, mismatchesBefore |-> 0, at |-> 0]


NotDecoded == [by |-> "none", kind |-> "none", width |-> 0, height |-> 0, pixels |-> <<>>]

Failure(by, kind) == [by |-> by, kind |-> kind, width |-> 0, height |-> 0, pixels |-> <<>>]

\* lines 89-102: the PNG branch
DecodePNG(by, out) ==
    IF out.ok
    THEN [by |-> by, kind |-> "PixelImage", width |-> out.width,
          height |-> out.height, pixels |-> PngPixelLoop(out.data, 0)]
    ELSE Failure(by, "DecodeFailure")

\* lines 103-117: the JPEG branch
DecodeJPEG(by, out) ==
    IF out.ok
    THEN [by |-> by, kind |-> "PixelImage", width |-> out.width,
          height |-> out.height, pixels |-> JpegPixelLoop(out.data, 0)]
    ELSE Failure(by, "DecodeFailure")

\* the whole function; `out` is what the format library does with the buffer
imageBufferToPixelJSON(buf, out) ==
    IF ~IsPNG(buf) /\ ~IsJPEG(buf)
    THEN Failure("imageBufferToPixelJSON", "UnsupportedFormat")
    ELSE IF IsPNG(buf)
    THEN DecodePNG("imageBufferToPixelJSON", out)
    ELSE DecodeJPEG("imageBufferToPixelJSON", out)

\* index.js lines 31-88: POST /upload with a file.  Once the format is
\* accepted the handler reads PNG or jpeg (lines 45, 58), which that file
\* never binds: the ReferenceError is caught at line 86 and answered with
\* 500 "Server error."
IndexUploadOutcome(buf) ==
    IF ~IsPNG(buf) /\ ~IndexIsJPEG(buf)
    THEN Failure("index.js upload", "UnsupportedFormat")
    ELSE Failure("index.js upload", "ServerError")

\* the buffers decoded: the signatures, their prefixes, and near misses
PngMagic == <<137, 80, 78, 71, 13, 10, 26, 10>>
JpegMagic == <<255, 216, 255>>

Buffers ==
    {SubSeq(PngMagic, 1, n) : n \in 0..8}
    \cup {PngMagic \o <<0>>, PngMagic \o <<255, 216, 255>>}
    \cup {[PngMagic EXCEPT ![n] = 0] : n \in 1..8}
    \cup {SubSeq(JpegMagic, 1, n) : n \in 1..3}
    \cup {JpegMagic \o <<224>>, JpegMagic \o <<225, 0>>}
    \cup {<<255, 216, 0>>, <<255, 216, 254, 255>>, <<255, 217, 255>>,
          <<254, 216, 255>>, <<0, 255, 216, 255>>, <<71, 73, 70, 56>>}

InitCodec ==
    /\ buffer \in Buffers
    /\ lib \in LibOutcomes
    /\ decoded = NotDecoded
    /\ GuardAtStart /\ ClockAtStart /\ NoneInFlight /\ RateAtStart /\ StoreAtStart /\ SanitizeIdle
    /\ last = NoRequest

Decode ==
    /\ decoded' = imageBufferToPixelJSON(buffer, lib)
    /\ UNCHANGED <<buffer, lib, guardVars, clockVars, rateVars, storeVars, nameVars, inflight, last>>

IndexUpload ==
    /\ decoded' = IndexUploadOutcome(buffer)
    /\ UNCHANGED <<buffer, lib, guardVars, clockVars, rateVars, storeVars, nameVars, inflight, last>>

NextCodec == Decode \/ IndexUpload

SpecCodec == InitCodec /\ [][NextCodec]_vars

(***************************************************************************)
(* The guard on its own: one action per call of requirePasswordForRequest  *)
(***************************************************************************)
\* no buffer is being decoded
CodecIdle == buffer = <<>> /\ lib = LibThrows /\ decoded = NotDecoded

InitGuard ==
    /\ GuardAtStart /\ ClockAtStart /\ NoneInFlight /\ RateAtStart /\ CodecIdle /\ StoreAtStart
    /\ SanitizeIdle
    /\ last = NoRequest

\* the history of mismatches after a verification that answered `status`
Recorded(ip, status) ==
    [mismatches EXCEPT ![ip] = IF status = 403 THEN @ + 1
                               ELSE IF status = 200 THEN 0 ELSE @]

Verify(req) ==
    LET r == requirePasswordForRequest(failedAttempts, req, now)
    IN  /\ failedAttempts' = r.fa
        /\ mismatches' = Recorded(req.ip, r.status)
        /\ last' = [op |-> "verify", ip |-> req.ip, provided |-> Provided(req),
                    status |-> r.status, faBefore |-> failedAttempts,
                    mismatchesBefore |-> mismatches[req.ip], at |-> now]
        /\ UNCHANGED <<clockVars, codecVars, rateVars, storeVars, nameVars, inflight>>

\* the steps the clock is observed to make between two requests
ClockSteps == {1, PASSWORD_LOCK_DURATION_MS - 1}

Tick(d) ==
    /\ ticks < MaxTicks
    /\ now' = now + d
    /\ ticks' = ticks + 1
    /\ UNCHANGED <<guardVars, last, codecVars, rateVars, storeVars, nameVars, inflight>>

NextGuard ==
    \/ \E req \in Requests : Verify(req)
    \/ \E d \in ClockSteps : Tick(d)

SpecGuard == InitGuard /\ [][NextGuard]_vars

(***************************************************************************)
(* The limiters on their own: one action per call of a limiter middleware. *)
(* The two limiters share nothing, so a behaviour exercises one of them;   *)
(* the read limiter is exercised by one client.                            *)
(***************************************************************************)
(* sanitizeFileName taken alone: a string is drawn and sanitized twice     *)
(***************************************************************************)
InitSanitize ==
    /\ GuardAtStart /\ ClockAtStart /\ NoneInFlight /\ RateAtStart /\ CodecIdle /\ StoreAtStart
    /\ last = NoRequest
    /\ given \in Names
    /\ sanitized = <<>>

NextSanitize == Sanitize

SpecSanitize == InitSanitize /\ [][NextSanitize]_vars

(***************************************************************************)
InitRate ==
    /\ GuardAtStart /\ ClockAtStart /\ NoneInFlight /\ RateAtStart /\ CodecIdle /\ StoreAtStart
    /\ SanitizeIdle
    /\ last = NoRequest

Admission(l, ip, admit) ==
    [op |-> "admit", limiter |-> l, ip |-> ip, admit |-> admit,
     status |-> IF admit THEN 200 ELSE 429, at |-> now,
     allowedBefore |-> WindowBefore(l, ip, now).allowed,
     windowEnd |-> WindowBefore(l, ip, now).end]

AdmitUpload(ip) ==
    LET r == rateLimit(uploadHits, uploadLimiter, ip, now)
    IN  /\ getHits = <<>>
        /\ MaySend(uploadHits, uploadLimiter, ip, now)
        /\ uploadHits' = r.hits
        /\ windows' = Counted("upload", ip, now, r.admit)
        /\ last' = Admission("upload", ip, r.admit)
        /\ UNCHANGED <<getHits, guardVars, clockVars, codecVars, storeVars, nameVars, inflight>>

AdmitGet(ip) ==
    LET r == rateLimit(getHits, getLimiter, ip, now)
    IN  /\ uploadHits = <<>>
        /\ MaySend(getHits, getLimiter, ip, now)
        /\ getHits' = r.hits
        /\ windows' = Counted("get", ip, now, r.admit)
        /\ last' = Admission("get", ip, r.admit)
        /\ UNCHANGED <<uploadHits, guardVars, clockVars, codecVars, storeVars, nameVars, inflight>>

\* the steps of the clock around the end of a rate window
RateClockSteps == {1, UPLOAD_RATE_LIMIT.windowMs - 1}

NextRate ==
    \/ \E ip \in Clients : AdmitUpload(ip)
    \/ \E ip \in {"ip1"} : AdmitGet(ip)
    \/ \E d \in RateClockSteps : Tick(d)

SpecRate == InitRate /\ [][NextRate]_vars

(***************************************************************************)
(* The routes of part_000 (lines 138-274).  A request runs the route's     *)
(* limiter, then (POST /upload) the multipart parser, then the handler,    *)
(* which calls requirePasswordForRequest and goes on only if that calls    *)
(* next().                                                                 *)
(***************************************************************************)

\* requests handled and clock advances seen in one behaviour
MaxRequests == 3

\* no file name, and no document
NoName == [time |-> Undefined, name |-> <<>>]

NoDocument ==
    [variant |-> "none", filename |-> NoName, original |-> <<>>,
     uploadedAt |-> Undefined, imageBase64 |-> <<>>, width |-> Undefined,
     height |-> Undefined, pixels |-> <<>>]

\* `${Date.now()}_${safeName}.json` (lines 159, 205).  The digits of the time
\* hold no '_', so the text determines both parts and the pair stands for it.
FileName(t, safeName) == [time |-> t, name |-> safeName]

\* lines 171-176: the document POST /upload writes; it has no width, height
\* or pixels
RawDocument(fileName, original, t, bytes) ==
    [variant |-> "imageBase64", filename |-> fileName, original |-> original,
     uploadedAt |-> t, imageBase64 |-> bytes, width |-> Undefined,
     height |-> Undefined, pixels |-> <<>>]

\* lines 208-215: the document POST /uploadJson writes; it has no imageBase64
PixelDocument(fileName, original, t, image) ==
    [variant |-> "pixels", filename |-> fileName, original |-> original,
     uploadedAt |-> t, imageBase64 |-> <<>>, width |-> image.width,
     height |-> image.height, pixels |-> image.pixels]

\* fs.writeJson(filePath, doc): the file is created or replaced
WriteJson(files, fileName, doc) ==
    [f \in DOMAIN files \cup {fileName} |-> IF f = fileName THEN doc ELSE files[f]]

\* express-rate-limit passing the request on although it is over the limit
LimiterPassedAlways(admit) == TRUE

\* the limiter calls next() only for an admitted request
LimiterPassed(admit) == admit

\* the handler going on although the guard has answered
GuardPassedAlways(status) == TRUE

\* lines 145-148, 191-193, 229-231, 248-250: the promise the handler awaits
\* resolves only when requirePasswordForRequest calls next() (line 74)
GuardPassed(status) == status = 200

\* the guard placed before the limiter: a request the guard refuses is not
\* counted by the limiter
GateGuardFirst(hits, cfg, req) ==
    LET g == requirePasswordForRequest(failedAttempts, req, now)
        lim == IF GuardPassed(g.status) THEN rateLimit(hits, cfg, req.ip, now)
               ELSE [admit |-> TRUE, hits |-> hits]
    IN  [hits |-> lim.hits, admit |-> lim.admit, reached |-> TRUE,
         verify |-> g.status, fa |-> g.fa,
         pass |-> GuardPassed(g.status) /\ LimiterPassed(lim.admit)]

\* the limiter and the guard of one request
Gate(hits, cfg, req) ==
    LET lim == rateLimit(hits, cfg, req.ip, now)
        reached == LimiterPassed(lim.admit)
        g == IF reached
             THEN requirePasswordForRequest(failedAttempts, req, now)
             ELSE [status |-> 0, fa |-> failedAttempts]
    IN  [hits |-> lim.hits, admit |-> lim.admit, reached |-> reached,
         verify |-> g.status, fa |-> g.fa,
         pass |-> reached /\ GuardPassed(g.status)]

\* what a handler did: the status sent, the store operations made, the files
\* left, the outcome of decoding, and the file name, the document or the
\* list the answer carries
Outcome(status, ops, files, decode, named, doc, listing) ==
    [status |-> status, ops |-> ops, files |-> files, decode |-> decode,
     named |-> named, doc |-> doc, listing |-> listing]

Refusal(status, ops, decode) ==
    Outcome(status, ops, storage, decode, NoName, NoDocument, {})

\* the answer when the handler's body is not reached
Rejected(gate) ==
    Refusal(IF ~gate.reached THEN 429 ELSE gate.verify, {}, "none")

\* req.file of an upload: undefined, or a buffer (of at most MAX_FILE_SIZE
\* bytes) with the name the client gave it
NoFile == [present |-> FALSE, originalname |-> <<>>, buffer |-> <<>>]

\* a buffer with the PNG signature, and one with neither signature
PngBytes == PngMagic \o <<0>>
GifBytes == <<71, 73, 70, 56>>

Files ==
    {NoFile,
     [present |-> TRUE, originalname |-> <<"a">>, buffer |-> PngBytes],
     [present |-> TRUE, originalname |-> <<".", ".", "/", "a", " ", "$">>,
      buffer |-> GifBytes]}

\* lines 150-178: the body of POST /upload
UploadBody(file) ==
    IF ~file.present THEN Refusal(400, {}, "none")
    ELSE LET originalName == IF file.originalname = <<>>
                             THEN <<"u", "p", "l", "o", "a", "d">>
                             ELSE file.originalname
             fileName == FileName(now, sanitizeFileName(originalName))
         IN  Outcome(200, {"write"},
                     WriteJson(storage, fileName,
                               RawDocument(fileName, originalName, now, file.buffer)),
                     "none", fileName, NoDocument, {})

\* the JSON bodies of POST /uploadJson; a base64 text stands as the bytes it
\* decodes to, the empty text being falsy
JsonBodies ==
    {[imageBase64 |-> <<>>, image |-> <<>>, name |-> <<>>],
     [imageBase64 |-> PngBytes, image |-> <<>>, name |-> <<"a">>],
     [imageBase64 |-> <<>>, image |-> GifBytes, name |-> <<>>]}

\* what the format library makes of the image of a request
RouteLibOutcomes ==
    {LibThrows,
     [ok |-> TRUE, width |-> 2, height |-> 1, data |-> <<255, 0, 0, 255, 1, 2, 3, 4>>]}

\* lines 195-217: the body of POST /uploadJson
UploadJsonBody(body, out) ==
    IF body.imageBase64 = <<>> /\ body.image = <<>>
    THEN Refusal(400, {}, "none")
    ELSE LET b64 == IF body.imageBase64 # <<>> THEN body.imageBase64 ELSE body.image
             result == imageBufferToPixelJSON(b64, out)
             providedName == IF body.name = <<>>
                             THEN <<"u", "p", "l", "o", "a", "d">>
                             ELSE body.name
             fileName == FileName(now, sanitizeFileName(providedName))
         IN  IF result.kind # "PixelImage"
             THEN Refusal(500, {}, result.kind)
             ELSE Outcome(200, {"write"},
                          WriteJson(storage, fileName,
                                    PixelDocument(fileName, providedName, now, result)),
                          result.kind, fileName, NoDocument, {})

\* lines 233-238: the body of GET /getImage/:name; the parameter is a
\* directory part followed by a file name
GetImageBody(rawName) ==
    LET safeName == rawName.base
    IN  IF safeName \notin DOMAIN storage
        THEN Refusal(404, {"exists"}, "none")
        ELSE Outcome(200, {"exists", "read"}, storage, "none", NoName,
                     storage[safeName], {})

\* lines 258-264: the summary of one document; a field that is missing or
\* 0 is given as null (Undefined here)
Summary(meta) ==
    [filename |-> meta.filename, original |-> meta.original,
     uploadedAt |-> meta.uploadedAt,
     width |-> IF meta.width \in {Undefined, 0} THEN Undefined ELSE meta.width,
     height |-> IF meta.height \in {Undefined, 0} THEN Undefined ELSE meta.height]

\* lines 252-269: the body of GET /list
ListBody ==
    Outcome(200, {"list"} \cup (IF DOMAIN storage = {} THEN {} ELSE {"read"}),
            storage, "none", NoName, NoDocument,
            {Summary(storage[f]) : f \in DOMAIN storage})

\* the names asked of GET /getImage/:name: the files there are, behind a
\* directory part or not, and one that is not there
RawNames ==
    {[dir |-> <<>>, base |-> f] : f \in DOMAIN storage}
    \cup {[dir |-> <<".", ".", "/">>, base |-> FileName(0, <<"n", "o", "n", "e">>)]}

\* the credentials of a request to a route
RouteCreds == {SERVER_PASSWORD, "wrong"}

NoCreds(ip) ==
    [ip |-> ip, xApiKey |-> "", bodyPassword |-> "", queryPassword |-> "",
     authorization |-> ""]

\* the request handled and what became of it; bytes is the buffer the
\* handler's body took from the request
Handled(op, req, gate, out, bytes) ==
    [op |-> op, ip |-> req.ip, provided |-> Provided(req), at |-> now,
     admit |-> gate.admit, verify |-> gate.verify, status |-> out.status,
     ops |-> out.ops, decode |-> out.decode, named |-> out.named,
     doc |-> out.doc, listing |-> out.listing,
     bytes |-> IF gate.pass THEN bytes ELSE <<>>]

\* the state a request leaves, given its gate and the outcome of its handler
Leaves(op, req, gate, out, bytes) ==
    /\ handled + ticks < MaxRequests
    /\ handled' = handled + 1
    /\ failedAttempts' = gate.fa
    /\ mismatches' = Recorded(req.ip, gate.verify)
    /\ storage' = out.files
    /\ last' = Handled(op, req, gate, out, bytes)
    /\ UNCHANGED <<clockVars, codecVars, nameVars, inflight>>

\* POST /upload (lines 138-184); the password comes in the form
PostUpload(ip, cred, file) ==
    LET req == [NoCreds(ip) EXCEPT !.bodyPassword = cred]
        gate == Gate(uploadHits, uploadLimiter, req)
        out == IF gate.pass THEN UploadBody(file) ELSE Rejected(gate)
    IN  /\ MaySend(uploadHits, uploadLimiter, ip, now)
        /\ uploadHits' = gate.hits
        /\ windows' = Counted("upload", ip, now, gate.admit)
        /\ UNCHANGED getHits
        /\ Leaves("POST /upload", req, gate, out, file.buffer)

\* POST /uploadJson (lines 188-223); the password comes in x-api-key
PostUploadJson(ip, cred, body, out0) ==
    LET req == [NoCreds(ip) EXCEPT !.xApiKey = cred]
        gate == Gate(uploadHits, uploadLimiter, req)
        out == IF gate.pass THEN UploadJsonBody(body, out0) ELSE Rejected(gate)
    IN  /\ MaySend(uploadHits, uploadLimiter, ip, now)
        /\ uploadHits' = gate.hits
        /\ windows' = Counted("upload", ip, now, gate.admit)
        /\ UNCHANGED getHits
        /\ Leaves("POST /uploadJson", req, gate, out,
                  IF body.imageBase64 # <<>> THEN body.imageBase64 ELSE body.image)

\* GET /getImage/:name (lines 226-243); the password comes in the query
GetImage(ip, cred, rawName) ==
    LET req == [NoCreds(ip) EXCEPT !.queryPassword = cred]
        gate == Gate(getHits, getLimiter, req)
        out == IF gate.pass THEN GetImageBody(rawName) ELSE Rejected(gate)
    IN  /\ MaySend(getHits, getLimiter, ip, now)
        /\ getHits' = gate.hits
        /\ windows' = Counted("get", ip, now, gate.admit)
        /\ UNCHANGED uploadHits
        /\ Leaves("GET /getImage/:name", req, gate, out, <<>>)

\* GET /list (lines 246-274); the password comes in authorization
GetList(ip, cred) ==
    LET req == [NoCreds(ip) EXCEPT !.authorization = cred]
        gate == Gate(getHits, getLimiter, req)
        out == IF gate.pass THEN ListBody ELSE Rejected(gate)
    IN  /\ MaySend(getHits, getLimiter, ip, now)
        /\ getHits' = gate.hits
        /\ windows' = Counted("get", ip, now, gate.admit)
        /\ UNCHANGED uploadHits
        /\ Leaves("GET /list", req, gate, out, <<>>)

\* time passing between two requests
RouteTick == handled + ticks < MaxRequests /\ Tick(1)

\* The state after client ip1 has, at time 0, sent max - 1 uploads without a
\* file, with the password, and max - 1 reads of a file that is not there,
\* the last PASSWORD_MAX_FAILURES - 1 of them with a wrong password:
\* requests that leave nothing but their counts.
BusyHits(cfg) ==
    [ip \in {"ip1"} |-> [totalHits |-> cfg.max - 1, resetTime |-> cfg.windowMs]]

InitBusy ==
    /\ uploadHits = BusyHits(uploadLimiter)
    /\ getHits = BusyHits(getLimiter)
    /\ windows =
          [l \in {"upload", "get"} |->
              [ip \in Clients |->
                  IF ip = "ip1"
                  THEN [end |-> 60000, allowed |-> IF l = "upload" THEN 9 ELSE 59]
                  ELSE [end |-> 0, allowed |-> 0]]]
    /\ failedAttempts =
          [ip \in {"ip1"} |->
              [count |-> PASSWORD_MAX_FAILURES - 1, blockedUntil |-> Undefined]]
    /\ mismatches = [ip \in Clients |-> IF ip = "ip1" THEN PASSWORD_MAX_FAILURES - 1 ELSE 0]

\* the server has just started, or is in the state InitBusy describes
Init ==
    /\ ClockAtStart /\ NoneInFlight /\ CodecIdle /\ StoreAtStart /\ SanitizeIdle
    /\ last = NoRequest
    /\ \/ GuardAtStart /\ RateAtStart
       \/ InitBusy

Next ==
    \/ \E ip \in Clients, cred \in RouteCreds, file \in Files :
          PostUpload(ip, cred, file)
    \/ \E ip \in Clients, cred \in RouteCreds, body \in JsonBodies,
          out \in RouteLibOutcomes : PostUploadJson(ip, cred, body, out)
    \/ \E ip \in Clients, cred \in RouteCreds, rawName \in RawNames :
          GetImage(ip, cred, rawName)
    \/ \E ip \in Clients, cred \in RouteCreds : GetList(ip, cred)
    \/ RouteTick

Spec == Init /\ [][Next]_vars

(***************************************************************************)
(* The handlers as Node runs them: one at a time, each until it awaits     *)
(* something that is not settled yet.  A request is suspended while multer *)
(* parses its body and while an fs call is under way, and other requests   *)
(* run in between.  requirePasswordForRequest has no await in it, and the  *)
(* promise the handler awaits on it is settled by the time it is awaited,  *)
(* so the handler runs from the call of the guard to its first fs call in  *)
(* one piece.  The clock stands still in these behaviours.                 *)
(***************************************************************************)

\* requests that arrive in one behaviour, and requests suspended at a time
MaxArrivals == 3
MaxInFlight == 2

\* the guard working on the map as it was when the request arrived, as if a
\* suspension point lay between the reading and the writing of the entry
GuardViewAtArrival(current, atArrival) == atArrival

\* the map the guard works on: failedAttempts as it is when the guard is
\* called (lines 53, 62)
GuardView(current, atArrival) == current

\* lines 68 and 73: failedAttempts.set(ip, info) and failedAttempts.delete(ip)
\* touch the entry of ip only
SetEntry(current, result, ip) ==
    [x \in (DOMAIN current \ {ip}) \cup (DOMAIN result \cap {ip}) |->
        IF x = ip THEN result[x] ELSE current[x]]

\* the file POST /upload is sent, and the name GET /getImage/:name asks for
SentFile == [present |-> TRUE, originalname |-> <<"a">>, buffer |-> PngBytes]
AskedName == FileName(0, sanitizeFileName(SentFile.originalname))

AsyncOps == {"POST /upload", "GET /getImage/:name"}

Suspended(op, ip, cred, pc, named, doc) ==
    [op |-> op, ip |-> ip, provided |-> cred, pc |-> pc, atArrival |-> failedAttempts,
     named |-> named, doc |-> doc]

Without(i) == SubSeq(inflight, 1, i - 1) \o SubSeq(inflight, i + 1, Len(inflight))

Answer(p, status, doc) ==
    [op |-> p.op, ip |-> p.ip, provided |-> p.provided, status |-> status,
     at |-> now, doc |-> doc, atArrival |-> p.atArrival]

\* a request arrives: its limiter runs, and POST /upload goes on to multer
Arrive(op, ip, cred) ==
    LET upload == op = "POST /upload"
        lim == IF upload THEN rateLimit(uploadHits, uploadLimiter, ip, now)
               ELSE rateLimit(getHits, getLimiter, ip, now)
        p == Suspended(op, ip, cred, IF upload THEN "parsing" ELSE "parsed",
                       NoName, NoDocument)
    IN  /\ handled < MaxArrivals
        /\ Len(inflight) < MaxInFlight
        /\ handled' = handled + 1
        /\ uploadHits' = IF upload THEN lim.hits ELSE uploadHits
        /\ getHits' = IF upload THEN getHits ELSE lim.hits
        /\ windows' = Counted(IF upload THEN "upload" ELSE "get", ip, now, lim.admit)
        /\ IF LimiterPassed(lim.admit)
           THEN inflight' = Append(inflight, p) /\ UNCHANGED last
           ELSE last' = Answer(p, 429, NoDocument) /\ UNCHANGED inflight
        /\ UNCHANGED <<guardVars, clockVars, codecVars, storage, nameVars>>

\* multer has read the body of a POST /upload (line 138)
Parsed(i) ==
    /\ inflight[i].pc = "parsing"
    /\ inflight' = [inflight EXCEPT ![i].pc = "parsed"]
    /\ UNCHANGED <<guardVars, clockVars, codecVars, rateVars, storeVars, nameVars, last>>

\* the handler runs: the guard (lines 145-148, 229-231), and if it calls
\* next(), the body up to its first fs call (lines 150-171, 233-236)
Handler(i) ==
    LET p == inflight[i]
        req == [NoCreds(p.ip) EXCEPT !.xApiKey = p.provided]
        g == requirePasswordForRequest(GuardView(failedAttempts, p.atArrival), req, now)
        fileName == FileName(now, sanitizeFileName(SentFile.originalname))
    IN  /\ p.pc = "parsed"
        /\ failedAttempts' = SetEntry(failedAttempts, g.fa, p.ip)
        /\ mismatches' = Recorded(p.ip, g.status)
        /\ IF GuardPassed(g.status)
           THEN /\ inflight' =
                      [inflight EXCEPT ![i] =
                          IF p.op = "POST /upload"
                          THEN [p EXCEPT !.pc = "writeJson", !.named = fileName,
                                         !.doc = RawDocument(fileName, SentFile.originalname,
                                                             now, SentFile.buffer)]
                          ELSE [p EXCEPT !.pc = "pathExists", !.named = AskedName]]
                /\ UNCHANGED last
           ELSE /\ inflight' = Without(i)
                /\ last' = Answer(p, g.status, NoDocument)
        /\ UNCHANGED <<clockVars, codecVars, rateVars, storeVars, nameVars>>

\* fs.writeJson has written the file (lines 171-178)
Written(i) ==
    LET p == inflight[i]
    IN  /\ p.pc = "writeJson"
        /\ storage' = WriteJson(storage, p.named, p.doc)
        /\ inflight' = Without(i)
        /\ last' = Answer(p, 200, NoDocument)
        /\ UNCHANGED <<guardVars, clockVars, codecVars, rateVars, handled, nameVars>>

\* fs.pathExists has answered (line 236)
PathExists(i) ==
    LET p == inflight[i]
    IN  /\ p.pc = "pathExists"
        /\ IF p.named \in DOMAIN storage
           THEN inflight' = [inflight EXCEPT ![i].pc = "readJson"] /\ UNCHANGED last
           ELSE inflight' = Without(i) /\ last' = Answer(p, 404, NoDocument)
        /\ UNCHANGED <<guardVars, clockVars, codecVars, rateVars, storeVars, nameVars>>

\* fs.readJson has read the file (lines 237-238); nothing removes a file
ReadJson(i) ==
    LET p == inflight[i]
    IN  /\ p.pc = "readJson"
        /\ inflight' = Without(i)
        /\ last' = Answer(p, 200, storage[p.named])
        /\ UNCHANGED <<guardVars, clockVars, codecVars, rateVars, storeVars, nameVars>>

NoAnswer ==
    [op |-> "none", ip |-> "none", provided |-> "", status |-> 0, at |-> 0,
     doc |-> NoDocument, atArrival |-> <<>>]

InitAsync ==
    /\ GuardAtStart /\ ClockAtStart /\ NoneInFlight /\ RateAtStart /\ CodecIdle
    /\ StoreAtStart /\ SanitizeIdle
    /\ last = NoAnswer

NextAsync ==
    \/ \E op \in AsyncOps, ip \in Clients, cred \in RouteCreds : Arrive(op, ip, cred)
    \/ \E i \in 1..Len(inflight) : Parsed(i)
    \/ \E i \in 1..Len(inflight) : Handler(i)
    \/ \E i \in 1..Len(inflight) : Written(i)
    \/ \E i \in 1..Len(inflight) : PathExists(i)
    \/ \E i \in 1..Len(inflight) : ReadJson(i)

SpecAsync == InitAsync /\ [][NextAsync]_vars

(***************************************************************************)
(* AccessGuard claims, checked under SpecGuard                             *)
(***************************************************************************)
Allowed == 200
Denied == 403
Blocked == 429

\* the entry the client of the last verification had when it was called
EntryBefore == GetEntry(last.faBefore, last.ip)

\* the entry that verification left
EntryAfter == GetEntry(failedAttempts, last.ip)

\* the last verification was called inside the client's lock window
InLockWindow ==
    /\ last.op = "verify"
    /\ EntryBefore.blockedUntil # Undefined
    /\ last.at < EntryBefore.blockedUntil

\* C1: once PASSWORD_MAX_FAILURES consecutive mismatches of a client have
\* been recorded, the client has a lock window, and every verification of
\* that client inside the window answers Blocked, never Allowed, also with
\* the expected credential.
C1_LockedClientIsBlocked ==
    (last.op = "verify" /\ last.mismatchesBefore >= PASSWORD_MAX_FAILURES)
        => /\ EntryBefore.blockedUntil # Undefined
           /\ last.at < EntryBefore.blockedUntil => last.status = Blocked

C1_Witness ==
    /\ last.op = "verify"
    /\ last.mismatchesBefore = PASSWORD_MAX_FAILURES
    /\ last.at < EntryBefore.blockedUntil
    /\ last.provided = SERVER_PASSWORD
    /\ last.status = Blocked

\* the last verification compared the credential and found a mismatch
ComparedMismatch ==
    /\ last.op = "verify"
    /\ ~InLockWindow
    /\ last.provided # SERVER_PASSWORD

\* C2 as stated: a mismatch that raises failureCount to the threshold or
\* above sets blockedUntil = now + LOCK_DURATION and that same call answers
\* Blocked; a mismatch that leaves it below the threshold answers Denied.
C2_ThresholdCallBlocked ==
    ComparedMismatch =>
        IF EntryBefore.count + 1 >= PASSWORD_MAX_FAILURES
        THEN /\ EntryAfter.blockedUntil = last.at + PASSWORD_LOCK_DURATION_MS
             /\ last.status = Blocked
        ELSE last.status = Denied

\* C2 amended: a mismatch that raises failureCount to the threshold or above
\* sets blockedUntil = now + LOCK_DURATION, and that same call answers
\* Denied, as does a mismatch that leaves failureCount below the threshold
\* (which sets no blockedUntil); in both cases failureCount grows by one.
C2_ThresholdCallDenied ==
    ComparedMismatch =>
        /\ last.status = Denied
        /\ EntryAfter.count = EntryBefore.count + 1
        /\ IF EntryAfter.count >= PASSWORD_MAX_FAILURES
           THEN EntryAfter.blockedUntil = last.at + PASSWORD_LOCK_DURATION_MS
           ELSE EntryAfter.blockedUntil = Undefined

C2_Witness ==
    /\ ComparedMismatch
    /\ EntryBefore.count = PASSWORD_MAX_FAILURES - 1
    /\ EntryAfter.blockedUntil = last.at + PASSWORD_LOCK_DURATION_MS
    /\ last.status = Denied

\* C3: a verification inside the lock window answers Blocked and leaves the
\* whole lockout map as it was (no count incremented, no window extended),
\* whatever the credential.
C3_BlockedChangesNothing ==
    InLockWindow => last.status = Blocked /\ failedAttempts = last.faBefore

C3_Witness ==
    /\ InLockWindow
    /\ last.provided = "wrong"
    /\ last.at > EntryBefore.blockedUntil - PASSWORD_LOCK_DURATION_MS
    /\ last.status = Blocked
    /\ failedAttempts = last.faBefore

\* C4: the expected credential outside a lock window answers Allowed and
\* deletes the client's entry; hence a client that has a lock window has had
\* at least PASSWORD_MAX_FAILURES mismatches since it was last allowed.
C4_SuccessResets ==
    /\ (last.op = "verify" /\ last.provided = SERVER_PASSWORD /\ ~InLockWindow)
          => last.status = Allowed /\ last.ip \notin DOMAIN failedAttempts
    /\ \A ip \in DOMAIN failedAttempts :
          failedAttempts[ip].blockedUntil # Undefined
              => mismatches[ip] >= PASSWORD_MAX_FAILURES

C4_Witness ==
    /\ last.op = "verify"
    /\ last.status = Allowed
    /\ EntryBefore.count = PASSWORD_MAX_FAILURES - 1
    /\ last.ip \notin DOMAIN failedAttempts

\* C5: for a client with a lock window, the expected credential answers
\* Allowed exactly when now >= blockedUntil, and then the entry is cleared.
C5_LockEndsByTime ==
    (/\ last.op = "verify"
     /\ EntryBefore.blockedUntil # Undefined
     /\ last.provided = SERVER_PASSWORD)
        => /\ last.status = Allowed <=> last.at >= EntryBefore.blockedUntil
           /\ last.status = Allowed => last.ip \notin DOMAIN failedAttempts

C5_Witness ==
    /\ last.op = "verify"
    /\ EntryBefore.blockedUntil # Undefined
    /\ last.at = EntryBefore.blockedUntil
    /\ last.provided = SERVER_PASSWORD
    /\ last.status = Allowed
    /\ last.ip \notin DOMAIN failedAttempts

(***************************************************************************)
(* PixelCodec claims, checked under SpecCodec                              *)
(***************************************************************************)

\* the buffer starts with the 8 bytes 89 50 4E 47 0D 0A 1A 0A
HasPngSignature(buf) == Len(buf) >= 8 /\ \A i \in 1..8 : buf[i] = PngMagic[i]

\* the buffer starts with the 3 bytes FF D8 FF
HasJpegSignature(buf) == Len(buf) >= 3 /\ \A i \in 1..3 : buf[i] = JpegMagic[i]

\* C9: decoding fails with UnsupportedFormat exactly when the buffer starts
\* with neither the 8-byte PNG signature nor the JPEG signature FF D8 FF,
\* buffers shorter than the signatures included.
C9_UnsupportedExactly ==
    decoded.by # "none" =>
        (decoded.kind = "UnsupportedFormat"
            <=> ~HasPngSignature(buffer) /\ ~HasJpegSignature(buffer))

\* what C9 states does hold of imageBufferToPixelJSON taken alone
UnsupportedExactlyInPart000 ==
    decoded.by = "imageBufferToPixelJSON" =>
        /\ decoded.kind = "UnsupportedFormat"
              <=> ~HasPngSignature(buffer) /\ ~HasJpegSignature(buffer)
        /\ HasPngSignature(buffer) => decoded.kind \in {"PixelImage", "DecodeFailure"}

\* C10: a decoded image has width*height pixels, and pixel k holds bytes
\* 4k, 4k+1, 4k+2, 4k+3 (k from 0) of the library's RGBA output as r, g, b, a,
\* in the same order, for PNG and for JPEG buffers.
C10_PixelsFollowRGBA ==
    decoded.kind = "PixelImage" =>
        /\ decoded.width = lib.width /\ decoded.height = lib.height
        /\ Len(decoded.pixels) = decoded.width * decoded.height
        /\ \A k \in 0..(Len(decoded.pixels) - 1) :
              decoded.pixels[k + 1] =
                  [r |-> lib.data[4 * k + 1], g |-> lib.data[4 * k + 2],
                   b |-> lib.data[4 * k + 3], a |-> lib.data[4 * k + 4]]

C10_Witness ==
    /\ decoded.kind = "PixelImage"
    /\ HasJpegSignature(buffer)
    /\ decoded.width = 2 /\ decoded.height = 2
    /\ decoded.pixels[1] = [r |-> 255, g |-> 0, b |-> 0, a |-> 255]
    /\ decoded.pixels[4] = [r |-> 1, g |-> 2, b |-> 3, a |-> 4]

(***************************************************************************)
(* RateLimiter claim, checked under SpecRate                               *)
(***************************************************************************)

\* C6: for each limiter and client, an admit is Allowed exactly while fewer
\* than maxRequests admits were allowed in the client's current window of
\* 60000 ms (10 for the upload class, 60 for the read class), so exactly
\* maxRequests admits of a window are Allowed, every further one is
\* Throttled, and the first admit after the window has elapsed is Allowed.
C6_ExactlyMaxPerWindow ==
    /\ last.op = "admit" =>
          (last.admit <=>
              last.allowedBefore < (IF last.limiter = "upload" THEN 10 ELSE 60))
    /\ \A ip \in Clients :
          windows["upload"][ip].allowed <= 10 /\ windows["get"][ip].allowed <= 60

C6_Witness ==
    /\ last.op = "admit" /\ last.limiter = "get"
    /\ ~last.admit
    /\ last.allowedBefore = 60
    /\ last.at > 0 /\ last.at < last.windowEnd

(***************************************************************************)
(* Route claims, checked under Spec                                        *)
(***************************************************************************)
Throttled == 429

RouteOps == {"POST /upload", "POST /uploadJson", "GET /getImage/:name", "GET /list"}

UploadOps == {"POST /upload", "POST /uploadJson"}

\* C7: a request on POST /upload, POST /uploadJson, GET /getImage/:name or
\* GET /list makes a store operation (write, exists, read, list), or changes
\* the stored files, only if the limiter admitted it and the guard then
\* answered Allowed for it; a request answered Denied, Blocked or Throttled
\* makes no store operation and leaves the stored files as they were.
C7_StoreOnlyBehindGate ==
    [][(handled' # handled /\ last'.op \in RouteOps) =>
          /\ (last'.ops # {} \/ storage' # storage)
                => last'.admit /\ last'.verify = Allowed
          /\ (~last'.admit \/ last'.verify \in {Denied, Blocked})
                => /\ last'.ops = {} /\ storage' = storage
                   /\ last'.status \in {Denied, Blocked, Throttled}]_vars

\* a read of a client inside its lock window, with a file in the store
C7_Witness ==
    /\ last.op = "GET /getImage/:name"
    /\ last.admit /\ last.verify = Blocked /\ last.status = Blocked
    /\ last.ops = {}
    /\ DOMAIN storage # {}

\* C8: an upload request that writes to the store has had its bytes decoded
\* successfully first, so on both upload routes a buffer that starts with
\* neither the PNG nor the JPEG signature is rejected and nothing is written
\* for it.
C8_OnlyDecodedIsStored ==
    (last.op \in UploadOps /\ "write" \in last.ops) =>
        /\ last.decode = "PixelImage"
        /\ HasPngSignature(last.bytes) \/ HasJpegSignature(last.bytes)

\* what C8 states does hold of POST /uploadJson
OnlyDecodedIsStoredByUploadJson ==
    (last.op = "POST /uploadJson" /\ "write" \in last.ops) =>
        /\ last.decode = "PixelImage"
        /\ HasPngSignature(last.bytes) \/ HasJpegSignature(last.bytes)

(***************************************************************************)
(* NameSanitizer claims, checked under SpecSanitize                        *)
(***************************************************************************)

\* the text is a string: a finite sequence of characters
IsString(str) == DOMAIN str = 1..Len(str) /\ \A i \in DOMAIN str : str[i] \in STRING

\* C11: sanitizeFileName returns a string for every input string, and
\* sanitizing its result again returns that result unchanged, also when the
\* input reduces to the fallback "file".
C11_TotalAndIdempotent ==
    /\ \A i \in 1..Len(sanitized) : IsString(sanitized[i])
    /\ Len(sanitized) = 2 => sanitized[2] = sanitized[1]

\* an input of unsafe characters only, which falls back to "file"
C11_Witness ==
    /\ given = <<"/", "$", "\\">>
    /\ sanitized = << <<"f", "i", "l", "e">>, <<"f", "i", "l", "e">> >>

\* the largest member of a finite set of naturals, 0 for the empty set
MaxOf(S) == IF S = {} THEN 0 ELSE CHOOSE m \in S : \A k \in S : k <= m

\* the final path segment of a string: what lies between the last separator
\* that has a non-separator after it and the trailing separators
FinalSegment(str) ==
    LET end == MaxOf({k \in 1..Len(str) : str[k] # "/"})
        start == 1 + MaxOf({k \in 1..end : str[k] = "/"})
    IN  SubSeq(str, start, end)

\* the characters of a string that the class keeps, the underscore apart
KeptChars(str) == SelectSeq(str, LAMBDA c : c \in SafeChars \ {"_"})

\* C12: for every input string the result of sanitizeFileName is non-empty,
\* holds only characters of [A-Za-z0-9_.-] (so no path separator), and is
\* either the fallback "file" or made of the characters of the final path
\* segment of the input, in their order, with underscores for whitespace;
\* nothing of the directory part is kept.
C12_SafeFinalSegmentOnly ==
    Len(sanitized) >= 1 =>
        LET safeName == sanitized[1]
        IN  /\ safeName # <<>>
            /\ \A i \in 1..Len(safeName) : safeName[i] \in SafeChars /\ safeName[i] # "/"
            /\ \/ safeName = <<"f", "i", "l", "e">>
               \/ KeptChars(safeName) = KeptChars(FinalSegment(given))
            /\ \A i \in 1..Len(safeName) :
                  safeName[i] = "_" =>
                      \E k \in 1..Len(FinalSegment(given)) :
                          FinalSegment(given)[k] \in Whitespace \cup {"_"}

\* a name behind a directory part
C12_Witness ==
    /\ given = <<".", "/", "a">>
    /\ Len(sanitized) >= 1
    /\ sanitized[1] = <<"a">>

(***************************************************************************)
(* RecordStore claims, checked under Spec                                  *)
(***************************************************************************)

\* the step is a request handled by a route
RouteStep == handled' # handled /\ last'.op \in RouteOps

\* C13: after a successful upload has answered with identifier f, every
\* later authorized read of f returns the document that upload stored,
\* whatever was handled in between: the document stored under f is the one
\* the upload built, no later request changes or removes it, and a read
\* answers with the document stored under the name asked for.
C13_ReadReturnsUploaded ==
    [][RouteStep =>
          /\ \A f \in DOMAIN storage :
                f \in DOMAIN storage' /\ storage'[f] = storage[f]
          /\ (last'.op \in UploadOps /\ last'.status = 200) =>
                /\ last'.named \in DOMAIN storage'
                /\ storage'[last'.named].filename = last'.named
          /\ (last'.op = "GET /getImage/:name" /\ last'.status = 200) =>
                /\ last'.doc.filename \in DOMAIN storage
                /\ last'.doc = storage[last'.doc.filename]]_vars

\* C16: two distinct successful uploads are stored under distinct keys, so
\* an upload never writes under a key that an earlier upload was stored
\* under, also when both have the same sanitized name and are handled at
\* the same clock value.
C16_DistinctKeys ==
    [][(RouteStep /\ last'.op \in UploadOps /\ "write" \in last'.ops) =>
          last'.named \notin DOMAIN storage]_vars

\* what does hold: uploads whose sanitized names differ, or that are handled
\* at different clock values, are stored under distinct keys
DistinctKeysForDistinctNameOrClock ==
    [][(RouteStep /\ last'.op \in UploadOps /\ "write" \in last'.ops) =>
          \A f \in DOMAIN storage :
              (f.name # last'.named.name \/ f.time # now) => f # last'.named]_vars

(***************************************************************************)
(* Claims on the order and the answers of limiter and guard, under Spec    *)
(***************************************************************************)

\* how a handled request was rejected, if it was
Rejection(l) ==
    IF l.op \notin RouteOps THEN "none"
    ELSE IF ~l.admit THEN "Throttled"
    ELSE IF l.verify = Blocked THEN "Blocked"
    ELSE IF l.verify = Denied THEN "Denied"
    ELSE "none"

\* the store of the limiter of the route of a handled request
HitsOf(l, up, get) == IF l.op \in UploadOps THEN up ELSE get

\* the requests the limiter had counted for the client in its running window
CountedBefore(l, hits) ==
    IF l.ip \in DOMAIN hits /\ l.at < hits[l.ip].resetTime
    THEN hits[l.ip].totalHits ELSE 0

\* C17: on every guarded route the limiter runs before the guard: a request
\* answered Throttled leaves the lockout map as it was and its credential is
\* not compared, and every request the guard is called for, whatever its
\* credential, has been counted by the limiter of its route.
C17_LimiterBeforeGuard ==
    [][RouteStep =>
          /\ ~last'.admit =>
                /\ last'.status = Throttled
                /\ last'.verify = 0
                /\ failedAttempts' = failedAttempts /\ mismatches' = mismatches
          /\ last'.verify # 0 =>
                /\ last'.admit
                /\ last'.ip \in DOMAIN HitsOf(last', uploadHits', getHits')
                /\ HitsOf(last', uploadHits', getHits')[last'.ip].totalHits =
                      CountedBefore(last', HitsOf(last', uploadHits, getHits)) + 1]_vars

\* a throttled request with a wrong credential, of a client with failures
C17_Witness ==
    /\ last.op \in RouteOps /\ ~last.admit
    /\ last.provided = "wrong"
    /\ last.ip \in DOMAIN failedAttempts
    /\ failedAttempts[last.ip].count = PASSWORD_MAX_FAILURES

\* the entry of a client in a map: a set of one entry, or of none
EntryOf(map, ip) == {map[x] : x \in DOMAIN map \cap {ip}}

\* C18: lockout and rate state are kept per client: a request of client A,
\* whatever its outcome, leaves the lockout entry and the counters of both
\* limiters of every other client B as they were.
C18_ClientsIsolated ==
    [][RouteStep =>
          \A b \in Clients \ {last'.ip} :
              /\ EntryOf(failedAttempts', b) = EntryOf(failedAttempts, b)
              /\ EntryOf(uploadHits', b) = EntryOf(uploadHits, b)
              /\ EntryOf(getHits', b) = EntryOf(getHits, b)]_vars

\* client ip2 is let through while ip1 is locked
C18_Witness ==
    /\ last.op \in RouteOps /\ last.ip = "ip2"
    /\ last.admit /\ last.verify = Allowed
    /\ "ip2" \notin DOMAIN failedAttempts
    /\ "ip1" \in DOMAIN failedAttempts
    /\ failedAttempts["ip1"].blockedUntil # Undefined
    /\ now < failedAttempts["ip1"].blockedUntil

\* C14: Denied, Blocked and Throttled are answered with pairwise different
\* statuses: two requests rejected in different ways never get the same
\* response status.
C14_RejectionsDistinct ==
    [][(/\ RouteStep
        /\ Rejection(last) # "none" /\ Rejection(last') # "none"
        /\ Rejection(last) # Rejection(last'))
            => last.status # last'.status]_vars

\* what does hold: Denied differs from both Blocked and Throttled
DeniedIsDistinct ==
    Rejection(last) # "none" => (last.status = Denied <=> Rejection(last) = "Denied")

(***************************************************************************)
(* Concurrency claim, checked under SpecAsync                              *)
(***************************************************************************)

\* C15: however the handlers of the requests of a client interleave at
\* their suspension points, no failure is lost: the count of the client's
\* entry is the number of verifications that found a mismatch since the
\* client's last accepted one, and a client without an entry has none.
C15_NoLostFailure ==
    \A ip \in Clients : GetEntry(failedAttempts, ip).count = mismatches[ip]

\* two requests of one client were suspended together: the one refused
\* last arrived before the guard had recorded the other's failure
C15_Witness ==
    /\ mismatches["ip1"] = 2
    /\ GetEntry(failedAttempts, "ip1").count = 2
    /\ last.ip = "ip1" /\ last.status = Denied /\ last.op = "POST /upload"
    /\ last.atArrival = <<>>

(***************************************************************************)
(* Invariants of the lockout map, checked under SpecGuard                  *)
(***************************************************************************)

\* C19: in every reachable state each entry of the lockout map has a count
\* of at least 1, has blockedUntil set exactly when its count is at least
\* PASSWORD_MAX_FAILURES, and a client with no recorded failure has no entry.
C19_EntriesWellFormed ==
    /\ \A ip \in DOMAIN failedAttempts :
          /\ failedAttempts[ip].count >= 1
          /\ failedAttempts[ip].blockedUntil # Undefined
                <=> failedAttempts[ip].count >= PASSWORD_MAX_FAILURES
    /\ \A ip \in Clients : mismatches[ip] = 0 => ip \notin DOMAIN failedAttempts

\* one client is locked, another is one failure short of it, and the last
\* verification was an accepted one of a client that had an entry
C19_Witness ==
    /\ last.op = "verify" /\ last.status = Allowed
    /\ last.ip \in DOMAIN last.faBefore
    /\ last.ip \notin DOMAIN failedAttempts
    /\ \E ip \in DOMAIN failedAttempts :
          /\ failedAttempts[ip].count = PASSWORD_MAX_FAILURES
          /\ failedAttempts[ip].blockedUntil # Undefined

\* the last verification found a mismatch after the client's lock had run out
MismatchAfterExpiry ==
    /\ last.op = "verify"
    /\ EntryBefore.blockedUntil # Undefined
    /\ last.at >= EntryBefore.blockedUntil
    /\ Mismatch(last.provided)

\* C20: the end of a lock does not reset the count: the entry of a client
\* whose lock has run out still has a count of at least
\* PASSWORD_MAX_FAILURES, so the first mismatch after the end of the lock
\* raises it by one and sets blockedUntil = now + PASSWORD_LOCK_DURATION_MS
\* anew, and the client is blocked again after that single failure.
C20_RelockedAfterOneFailure ==
    MismatchAfterExpiry =>
        /\ EntryBefore.count >= PASSWORD_MAX_FAILURES
        /\ last.status = Denied
        /\ EntryAfter.count = EntryBefore.count + 1
        /\ EntryAfter.blockedUntil = last.at + PASSWORD_LOCK_DURATION_MS
        /\ IsBlocked(failedAttempts, last.ip, last.at)

C20_Witness ==
    /\ MismatchAfterExpiry
    /\ last.at = EntryBefore.blockedUntil
    /\ EntryBefore.count = PASSWORD_MAX_FAILURES
    /\ EntryAfter.count = PASSWORD_MAX_FAILURES + 1
    /\ EntryAfter.blockedUntil = last.at + PASSWORD_LOCK_DURATION_MS

=============================================================================
